---------------------------- MODULE Spec2Model ----------------------------
(***************************************************************************)
(* FailoverProvider (src/src/failover-provider.js): a factory that keeps   *)
(* an ordered list of provider candidates and an active index, and whose   *)
(* initialize() returns a Proxy that forwards every member access to the   *)
(* active provider, switching to the next candidate (round robin) and      *)
(* retrying when a lookup, a synchronous call or an asynchronous call      *)
(* fails with an error the policy accepts.                                 *)
(*                                                                         *)
(* A logical call is one access on the proxy: the get trap (action Get),   *)
(* then, for a function member, the invocation of the returned closure     *)
(* (action Invoke) and the settlements of the promises it awaits (action   *)
(* Then and Catch). JavaScript runs each to completion, so each is one      *)
(* atomic step; the steps of different logical calls interleave.           *)
(***************************************************************************)
EXTENDS Naturals, Sequences, FiniteSets

\* Bounds of the model: lists of up to MaxProviders providers of any kind and
\* of up to MaxPlainProviders providers that are cats or cockroaches, retries
\* up to MaxRetries, NumCalls logical calls.
MaxProviders == 2
MaxPlainProviders == 4
MaxRetries == 2
NumCalls == 2

VARIABLES
  _providers,       \* Array<{id, provider, ms}>, in registration order
  _activeProvider,  \* index (0-based, as in the code) of the active provider
  _retries,         \* config.retries
  _shouldRetryOn,   \* config.shouldRetryOn: "default" or "custom"
  composite,        \* TRUE once initialize() has returned a Proxy
  initThrew,        \* TRUE when the last initialize() has thrown
  calls,            \* the logical calls made on the Proxy
  advances,         \* history: how often _switch has advanced the index
  uid               \* the call of uid(len) under way: its len, id and position

vars == <<_providers, _activeProvider, _retries, _shouldRetryOn,
          composite, initThrew, calls, advances, uid>>

CallIds == 1..NumCalls

(***************************************************************************)
(* The providers handed to addProvider. Cat, Dog and Cockroach are the     *)
(* classes of the unit tests; the others complete the capability surface   *)
(* the factory accepts (any object): Mute throws a value that is not an    *)
(* Error instance, Rock holds plain data where the others hold methods and *)
(* lacks the SOUND member, Sloth's speak() returns a promise that never    *)
(* settles and its syncSpeak() throws a TypeError (it reads a member of    *)
(* undefined).                                                             *)
(***************************************************************************)
Kinds == {"Cat", "Dog", "Cockroach", "Mute", "Rock", "Sloth"}

\* The kinds a list longer than MaxProviders is made of.
PlainKinds == {"Cat", "Cockroach"}

\* name: own data property; SOUND: accessor; syncSpeak: synchronous method;
\* speak: asynchronous method.
Members == {"name", "SOUND", "syncSpeak", "speak"}

\* this.sound of each animal.
Sound(kind) ==
  CASE kind = "Cat" -> "meow"
    [] kind = "Dog" -> "woof"
    [] kind = "Sloth" -> "zzz"
    [] kind = "Rock" -> "stone"
    [] OTHER -> "..."

\* ReflectGet raising a TypeError for a member the provider lacks.
ReflectGetMissingThrows(kind, p) ==
  CASE p = "name" -> [res |-> "value", v |-> kind, cls |-> "none"]
    [] p = "SOUND" ->
         CASE kind = "Cockroach" ->
                [res |-> "throw", v |-> "", cls |-> "CockroachError"]
           [] kind = "Mute" ->
                [res |-> "throw", v |-> "", cls |-> "StringThrown"]
           [] kind = "Rock" ->
                [res |-> "throw", v |-> "", cls |-> "TypeError"]
           [] OTHER -> [res |-> "value", v |-> Sound(kind), cls |-> "none"]
    [] OTHER ->
         IF kind = "Rock"
           THEN [res |-> "value", v |-> Sound(kind), cls |-> "none"]
           ELSE [res |-> "fn", v |-> "", cls |-> "none"]

\* Reflect.get(target.provider, p, receiver) followed by typeof prop:
\* res = "throw" (the getter threw a value of class cls), "value" (a
\* non-function value v, undefined for a missing member) or "fn".
ReflectGet(kind, p) ==
  CASE p = "name" -> [res |-> "value", v |-> kind, cls |-> "none"]
    [] p = "SOUND" ->
         CASE kind = "Cockroach" ->
                [res |-> "throw", v |-> "", cls |-> "CockroachError"]
           [] kind = "Mute" ->
                [res |-> "throw", v |-> "", cls |-> "StringThrown"]
           [] kind = "Rock" ->
                [res |-> "value", v |-> "undefined", cls |-> "none"]
           [] OTHER -> [res |-> "value", v |-> Sound(kind), cls |-> "none"]
    [] OTHER ->
         IF kind = "Rock"
           THEN [res |-> "value", v |-> Sound(kind), cls |-> "none"]
           ELSE [res |-> "fn", v |-> "", cls |-> "none"]

\* prop.apply(target.provider, args) for a function member: res = "return"
\* (a non-thenable value v), "throw" (synchronously, a value of class cls) or
\* "promise", which settles as "resolve" (with v), "reject" (with a value of
\* class cls) or "never".
Apply(kind, p) ==
  IF p = "syncSpeak"
    THEN CASE kind = "Cockroach" ->
                [res |-> "throw", settle |-> "none", v |-> "",
                 cls |-> "CockroachError"]
           [] kind = "Mute" ->
                [res |-> "throw", settle |-> "none", v |-> "",
                 cls |-> "StringThrown"]
           [] kind = "Sloth" ->
                [res |-> "throw", settle |-> "none", v |-> "",
                 cls |-> "TypeError"]
           [] OTHER ->
                [res |-> "return", settle |-> "none", v |-> Sound(kind),
                 cls |-> "none"]
    ELSE CASE kind = "Cockroach" ->
                [res |-> "promise", settle |-> "reject", v |-> "",
                 cls |-> "CockroachError"]
           [] kind = "Mute" ->
                [res |-> "promise", settle |-> "reject", v |-> "",
                 cls |-> "StringThrown"]
           [] kind = "Sloth" ->
                [res |-> "promise", settle |-> "never", v |-> "",
                 cls |-> "none"]
           [] OTHER ->
                [res |-> "promise", settle |-> "resolve", v |-> Sound(kind),
                 cls |-> "none"]

\* this.pace: the milliseconds speak() waits before it returns the sound
\* (the animals built with the default pace; the others fail at once).
Pace(kind, p) == IF p = "speak" /\ kind \in {"Cat", "Dog"} THEN 300 ELSE 0

\* error instanceof Error: true of an Error object and of an object of every
\* class that extends Error (the Error the cockroach throws, a TypeError),
\* false of a raised value that is no such object (the string the Mute
\* throws).
InstanceOfError(cls) == cls # "StringThrown"

\* ShouldRetryOn with a default that accepts every raised value.
ShouldRetryOnAnyByDefault(policy, cls) ==
  IF policy = "default"
    THEN TRUE
    ELSE IF InstanceOfError(cls) THEN cls # "CockroachError" ELSE TRUE

\* The two policies: the constructor's default, and the custom predicate of
\* the tests, which refuses the cockroach's errors and accepts the rest.
ShouldRetryOn(policy, cls) ==
  IF policy = "default"
    THEN InstanceOfError(cls)
    ELSE IF InstanceOfError(cls) THEN cls # "CockroachError" ELSE TRUE

\* The value a failed attempt raises: a fresh object per attempt, identified
\* by the call, the attempt's ordinal in the call and the entry attempted.
NoError == [cls |-> "none", call |-> 0, n |-> 0, by |-> 0]
Raised(cls, c, n, t) == [cls |-> cls, call |-> c, n |-> n, by |-> t]

\* Terminal with the budget tested as `retries <= 1`.
TerminalEarly(r, er) == r <= 1 \/ ~ShouldRetryOn(_shouldRetryOn, er.cls)

\* Terminal without the policy's verdict.
TerminalBudgetOnly(r, er) == r <= 0

\* Terminal with the budget tested as `retries < 0`.
TerminalOffByOne(r, er) == r + 1 <= 0 \/ ~ShouldRetryOn(_shouldRetryOn, er.cls)

\* `retries <= 0 || !this._shouldRetryOn(er)`: the failure is final.
Terminal(r, er) == r <= 0 \/ ~ShouldRetryOn(_shouldRetryOn, er.cls)

\* Switch without the identifier test: every failure advances.
SwitchAlways(act, failed) == (act + 1) % Len(_providers)

\* Switch that tests the identifier and leaves the index where it is.
SwitchKeeps(act, failed) ==
  IF _providers[failed + 1].id = _providers[act + 1].id THEN act ELSE act

\* Switch advancing by two positions.
SwitchByTwo(act, failed) ==
  IF _providers[failed + 1].id = _providers[act + 1].id
    THEN (act + 2) % Len(_providers)
    ELSE act

\* Switch without the modulo: the index stays on the last entry.
SwitchSaturates(act, failed) ==
  IF _providers[failed + 1].id = _providers[act + 1].id
       /\ act + 1 < Len(_providers)
    THEN act + 1
    ELSE act

\* Switch with the identifier test inverted.
SwitchInverted(act, failed) ==
  IF _providers[failed + 1].id # _providers[act + 1].id
    THEN (act + 1) % Len(_providers)
    ELSE act

\* _switch(failedProvider): the new active index.
Switch(act, failed) ==
  IF _providers[failed + 1].id = _providers[act + 1].id
    THEN (act + 1) % Len(_providers)
    ELSE act

\* Whether _switch(failedProvider) advances.
Advances(act, failed) == _providers[failed + 1].id = _providers[act + 1].id

\* One attempt of a call, as recorded in its history: the entry attempted,
\* what was attempted ("lookup": a lookup that threw, "read": a lookup that
\* gave a non-function value, "invoke": an invocation), the number of
\* advancements of the index made before it and the active index at the time.
Attempt(t, what, ep, on) == [idx |-> t, what |-> what, ep |-> ep, on |-> on]

\* The argument list the caller of logical call c passes to the closure: each
\* caller passes a list of its own.
ArgsOf(c) == <<c>>

\* The attempt `prop.apply(receiver, args)` of call c: t is the entry the
\* member prop was looked up on, recv the entry whose provider is the
\* receiver of the application, args the list applied.
Invocation(c, t, ep, on, recv, args) ==
  [idx |-> t, what |-> "invoke", ep |-> ep, on |-> on, recv |-> recv,
   args |-> args]

\* What a run of the handler's code leaves: the active index, the number of
\* advancements, the call's attempts, and how the code ended: "value" (it
\* returned val), "throw" (it threw err), "closure" (it returned the closure
\* over target and retries) or "pending" (it returned a promise that waits
\* for the invocation on target, with retries left).
\* Thrown with the error wrapped in an error of the engine's own.
ThrownWrapped(act, adv, tried, er) ==
  [kind |-> "throw", act |-> act, adv |-> adv, tried |-> tried, val |-> "",
   err |-> Raised("FailoverError", er.call, er.n, er.by), target |-> 0,
   retries |-> 0]

Returned(act, adv, tried, v) ==
  [kind |-> "value", act |-> act, adv |-> adv, tried |-> tried, val |-> v,
   err |-> NoError, target |-> 0, retries |-> 0]
Thrown(act, adv, tried, er) ==
  [kind |-> "throw", act |-> act, adv |-> adv, tried |-> tried, val |-> "",
   err |-> er, target |-> 0, retries |-> 0]
Closure(act, adv, tried, t, r) ==
  [kind |-> "closure", act |-> act, adv |-> adv, tried |-> tried, val |-> "",
   err |-> NoError, target |-> t, retries |-> r]
Pending(act, adv, tried, t, r) ==
  [kind |-> "pending", act |-> act, adv |-> adv, tried |-> tried, val |-> "",
   err |-> NoError, target |-> t, retries |-> r]

\* Proxy with the lookup outside the try block: a lookup that throws is not
\* retried.
ProxyLookupUnguarded(c, act, adv, t, r, p, tried) ==
  LET got == ReflectGet(_providers[t + 1].provider, p) IN
  CASE got.res = "value" ->
         Returned(act, adv, Append(tried, Attempt(t, "read", adv, act)), got.v)
    [] got.res = "fn" -> Closure(act, adv, tried, t, r)
    [] OTHER ->
         LET tr == Append(tried, Attempt(t, "lookup", adv, act))
         IN  Thrown(act, adv, tr, Raised(got.cls, c, Len(tr), t))

\* _proxy(target, p, receiver, retries): the lookup, and its retry on the
\* provider _switch selects.
RECURSIVE Proxy(_, _, _, _, _, _, _)
Proxy(c, act, adv, t, r, p, tried) ==
  LET got == ReflectGet(_providers[t + 1].provider, p) IN
  CASE got.res = "value" ->
         Returned(act, adv, Append(tried, Attempt(t, "read", adv, act)), got.v)
    [] got.res = "fn" -> Closure(act, adv, tried, t, r)
    [] OTHER ->
         LET tr == Append(tried, Attempt(t, "lookup", adv, act))
             er == Raised(got.cls, c, Len(tr), t)
             a2 == Switch(act, t)
             d2 == IF Advances(act, t) THEN adv + 1 ELSE adv
         IN  IF Terminal(r, er)
               THEN Thrown(act, adv, tr, er)
               ELSE Proxy(c, a2, d2, a2, r - 1, p, tr)

\* The closure _proxy returns for the member of entry t, applied to the list
\* args (Call), and the catch block of its synchronous part (Failover): the
\* failure of the invocation on t with error er, r retries being left. The
\* closure applies the member to target.provider, the provider of the entry
\* it was looked up on; a retry applies the closure re-resolved on the entry
\* _switch selects to the same list args.
RECURSIVE Call(_, _, _, _, _, _, _, _)
RECURSIVE Failover(_, _, _, _, _, _, _, _, _)
\* Call wrapping every outcome of the invocation in a promise.
CallAlwaysAwaits(c, act, adv, t, r, p, tried, args) ==
  LET tr == Append(tried, Invocation(c, t, adv, act, t, args))
      re == Apply(_providers[t + 1].provider, p)
  IN  CASE re.res \in {"return", "promise"} -> Pending(act, adv, tr, t, r)
        [] OTHER ->
             Failover(c, act, adv, t, r, p, tr, Raised(re.cls, c, Len(tr), t),
                      args)

\* Call applying the member with the provider that is active at the time of
\* the invocation as the receiver.
CallAppliesOnActive(c, act, adv, t, r, p, tried, args) ==
  LET tr == Append(tried, Invocation(c, t, adv, act, act, args))
      re == Apply(_providers[t + 1].provider, p)
  IN  CASE re.res = "return" -> Returned(act, adv, tr, re.v)
        [] re.res = "promise" -> Pending(act, adv, tr, t, r)
        [] OTHER ->
             Failover(c, act, adv, t, r, p, tr, Raised(re.cls, c, Len(tr), t),
                      args)

Call(c, act, adv, t, r, p, tried, args) ==
  LET tr == Append(tried, Invocation(c, t, adv, act, t, args))
      re == Apply(_providers[t + 1].provider, p)
  IN  CASE re.res = "return" -> Returned(act, adv, tr, re.v)
        [] re.res = "promise" -> Pending(act, adv, tr, t, r)
        [] OTHER ->
             Failover(c, act, adv, t, r, p, tr, Raised(re.cls, c, Len(tr), t),
                      args)

\* Failover giving up when _switch selects the entry that has just failed.
FailoverStopsOnSameEntry(c, act, adv, t, r, p, tried, er, args) ==
  IF Terminal(r, er) \/ Switch(act, t) = t
    THEN Thrown(act, adv, tried, er)
    ELSE LET a2 == Switch(act, t)
             d2 == IF Advances(act, t) THEN adv + 1 ELSE adv
             property == Proxy(c, a2, d2, a2, r - 1, p, tried)
         IN  IF property.kind = "closure"
               THEN Call(c, property.act, property.adv, property.target,
                         property.retries, p, property.tried, args)
               ELSE property

\* Failover handing the failed entry to _switch before it propagates the
\* error of a last attempt.
FailoverRotatesAtEnd(c, act, adv, t, r, p, tried, er, args) ==
  IF Terminal(r, er)
    THEN Thrown(Switch(act, t), IF Advances(act, t) THEN adv + 1 ELSE adv,
                tried, er)
    ELSE LET a2 == Switch(act, t)
             d2 == IF Advances(act, t) THEN adv + 1 ELSE adv
             property == Proxy(c, a2, d2, a2, r - 1, p, tried)
         IN  IF property.kind = "closure"
               THEN Call(c, property.act, property.adv, property.target,
                         property.retries, p, property.tried, args)
               ELSE property

\* Failover applying the re-resolved member whatever its type: a member that
\* is not a function makes the application raise a TypeError.
FailoverAppliesAnyway(c, act, adv, t, r, p, tried, er, args) ==
  IF Terminal(r, er)
    THEN Thrown(act, adv, tried, er)
    ELSE LET a2 == Switch(act, t)
             d2 == IF Advances(act, t) THEN adv + 1 ELSE adv
             property == Proxy(c, a2, d2, a2, r - 1, p, tried)
         IN  CASE property.kind = "closure" ->
                    Call(c, property.act, property.adv, property.target,
                         property.retries, p, property.tried, args)
               [] property.kind = "value" ->
                    Thrown(property.act, property.adv, property.tried,
                           Raised("TypeError", c, Len(property.tried), a2))
               [] OTHER -> property

\* The catch block of the synchronous part.
Failover(c, act, adv, t, r, p, tried, er, args) ==
  IF Terminal(r, er)
    THEN Thrown(act, adv, tried, er)
    ELSE LET a2 == Switch(act, t)
             d2 == IF Advances(act, t) THEN adv + 1 ELSE adv
             property == Proxy(c, a2, d2, a2, r - 1, p, tried)
         IN  IF property.kind = "closure"
               THEN Call(c, property.act, property.adv, property.target,
                         property.retries, p, property.tried, args)
               ELSE property

\* The handler the closure attaches to the promise with .catch: the
\* rejection of the invocation on t with error er, r retries being left.
FailoverAsync(c, act, adv, t, r, p, tried, er, args) ==
  IF Terminal(r, er)
    THEN Thrown(act, adv, tried, er)
    ELSE LET provider == Switch(act, t)
             switched == IF Advances(act, t) THEN adv + 1 ELSE adv
             property == Proxy(c, provider, switched, provider, r - 1, p,
                               tried)
         IN  IF property.kind = "closure"
               THEN Call(c, property.act, property.adv, property.target,
                         property.retries, p, property.tried, args)
               ELSE property

\* A logical call: pc is "idle" (not made yet), "held" (the caller holds the
\* closure the get trap returned), "pending" (the caller holds a promise that
\* waits for an invocation) or "done"; res, val and err are what the caller
\* received; aw tells that it received it through a promise; alone tells that
\* no other logical call was in flight at any time since the call began;
\* fixed tells that no provider has been added since the call began; seen is,
\* until the first invocation of the closure has ended, the number of
\* advancements of the index at the time the get trap returned the closure;
\* args is the list the closure was applied to, which its handlers capture.
IdleCall ==
  [pc |-> "idle", p |-> "name", target |-> 0, retries |-> 0, tried |-> <<>>,
   res |-> "none", val |-> "", err |-> NoError, aw |-> FALSE, alone |-> TRUE,
   fixed |-> TRUE, seen |-> 0, args |-> <<>>]

InFlight(c) == calls[c].pc \in {"held", "pending"}

\* The call record rec after a run of the handler's code ended as o.
After(rec, o) ==
  [rec EXCEPT
     !.pc = CASE o.kind = "closure" -> "held"
              [] o.kind = "pending" -> "pending"
              [] OTHER -> "done",
     !.target = o.target,
     !.retries = o.retries,
     !.tried = o.tried,
     !.res = CASE o.kind = "value" -> "value"
               [] o.kind = "throw" -> "error"
               [] OTHER -> "none",
     !.val = o.val,
     !.err = o.err,
     !.aw = rec.aw \/ o.kind = "pending",
     !.seen = CASE o.kind = "closure" -> o.adv
                [] /\ o.kind = "pending" /\ rec.pc = "held"
                   /\ Len(o.tried) = Len(rec.tried) + 1 -> rec.seen
                [] OTHER -> 0]

\* The calls in flight when call c begins are no longer alone.
Disturbed(c) ==
  [d \in CallIds |->
     IF d # c /\ InFlight(d) THEN [calls[d] EXCEPT !.alone = FALSE]
     ELSE calls[d]]

\* The calls in flight when a provider is added have seen the list grow.
Grown ==
  [d \in CallIds |->
     IF InFlight(d) THEN [calls[d] EXCEPT !.fixed = FALSE] ELSE calls[d]]

\* No call of uid is under way.
NoUid == [pc |-> "idle", len |-> 0, id |-> <<>>]

\* new FailoverProvider(config)
Constructed ==
  /\ _providers = <<>>
  /\ _activeProvider = 0
  /\ _retries \in 0..MaxRetries
  /\ _shouldRetryOn \in {"default", "custom"}
  /\ composite = FALSE
  /\ initThrew = FALSE
  /\ calls = [c \in CallIds |-> IdleCall]
  /\ advances = 0

Init == Constructed /\ uid = NoUid

\* uid(): a string of random digits, which may be the identifier of an entry
\* already in the list. An identifier is modelled by the rank of the first
\* entry that bears it: the identifiers uid() can return after the list l are
\* those of the entries of l and a new one.
IdsAfter(l) == {l[i].id : i \in DOMAIN l} \cup {Len(l) + 1}
NewIds == IdsAfter(_providers)

\* addProvider putting the new entry at the head of the list.
AddProviderUnshift(kind, id) ==
  /\ \/ Len(_providers) < MaxProviders
     \/ /\ Len(_providers) < MaxPlainProviders
        /\ kind \in PlainKinds
        /\ \A i \in DOMAIN _providers : _providers[i].provider \in PlainKinds
  /\ _providers' = <<[id |-> id, provider |-> kind, ms |-> 0]>> \o _providers
  /\ calls' = Grown
  /\ UNCHANGED <<uid, _activeProvider, _retries, _shouldRetryOn, composite,
                 initThrew, advances>>

\* addProvider setting the active index to the new length of the list.
AddProviderActivatesLength(kind, id) ==
  /\ \/ Len(_providers) < MaxProviders
     \/ /\ Len(_providers) < MaxPlainProviders
        /\ kind \in PlainKinds
        /\ \A i \in DOMAIN _providers : _providers[i].provider \in PlainKinds
  /\ _providers' = Append(_providers, [id |-> id, provider |-> kind, ms |-> 0])
  /\ _activeProvider' = Len(_providers) + 1
  /\ calls' = Grown
  /\ UNCHANGED <<uid, _retries, _shouldRetryOn, composite, initThrew, advances>>

\* addProvider making the entry it registers the active one.
AddProviderActivates(kind, id) ==
  /\ \/ Len(_providers) < MaxProviders
     \/ /\ Len(_providers) < MaxPlainProviders
        /\ kind \in PlainKinds
        /\ \A i \in DOMAIN _providers : _providers[i].provider \in PlainKinds
  /\ _providers' = Append(_providers, [id |-> id, provider |-> kind, ms |-> 0])
  /\ _activeProvider' = Len(_providers)
  /\ calls' = Grown
  /\ UNCHANGED <<uid, _retries, _shouldRetryOn, composite, initThrew, advances>>

\* addProvider(provider)
AddProvider(kind, id) ==
  /\ \/ Len(_providers) < MaxProviders
     \/ /\ Len(_providers) < MaxPlainProviders
        /\ kind \in PlainKinds
        /\ \A i \in DOMAIN _providers : _providers[i].provider \in PlainKinds
  /\ _providers' = Append(_providers, [id |-> id, provider |-> kind, ms |-> 0])
  /\ calls' = Grown
  /\ UNCHANGED <<uid, _activeProvider, _retries, _shouldRetryOn, composite,
                 initThrew, advances>>

\* initialize() throwing unless two providers are registered.
InitializeThrowsBelowTwo ==
  /\ Len(_providers) < 2
  /\ initThrew' = TRUE
  /\ UNCHANGED <<uid, _providers, _activeProvider, _retries, _shouldRetryOn,
                 composite, calls, advances>>

\* initialize() on an empty list: throws.
InitializeEmpty ==
  /\ Len(_providers) = 0
  /\ initThrew' = TRUE
  /\ UNCHANGED <<uid, _providers, _activeProvider, _retries, _shouldRetryOn,
                 composite, calls, advances>>

\* initialize() on a non-empty list: returns the Proxy.
InitializeProxy ==
  /\ Len(_providers) > 0
  /\ composite' = TRUE
  /\ initThrew' = FALSE
  /\ UNCHANGED <<uid, _providers, _activeProvider, _retries, _shouldRetryOn,
                 calls, advances>>

\* initialize()
Initialize == InitializeEmpty \/ InitializeProxy

\* Get drawing the retries from a budget the calls share: what the
\* advancements made so far have left of the configured retries.
GetSharedBudget(c, p) ==
  /\ composite
  /\ calls[c].pc = "idle"
  /\ LET left == IF _retries > advances THEN _retries - advances ELSE 0
         o == Proxy(c, _activeProvider, advances, _activeProvider, left,
                    p, <<>>)
         started == [calls[c] EXCEPT
                       !.p = p,
                       !.alone = \A d \in CallIds : ~InFlight(d)]
     IN  /\ calls' = [Disturbed(c) EXCEPT ![c] = After(started, o)]
         /\ _activeProvider' = o.act
         /\ advances' = o.adv
  /\ UNCHANGED <<uid, _providers, _retries, _shouldRetryOn, composite, initThrew>>

\* Get reading the member from the Proxy's own target, the first provider.
GetFromFirst(c, p) ==
  /\ composite
  /\ calls[c].pc = "idle"
  /\ LET o == Proxy(c, _activeProvider, advances, 0, _retries, p, <<>>)
         started == [calls[c] EXCEPT
                       !.p = p,
                       !.alone = \A d \in CallIds : ~InFlight(d)]
     IN  /\ calls' = [Disturbed(c) EXCEPT ![c] = After(started, o)]
         /\ _activeProvider' = o.act
         /\ advances' = o.adv
  /\ UNCHANGED <<uid, _providers, _retries, _shouldRetryOn, composite, initThrew>>

\* The Proxy's get trap for member p: _proxy on the active provider.
Get(c, p) ==
  /\ composite
  /\ calls[c].pc = "idle"
  /\ LET o == Proxy(c, _activeProvider, advances, _activeProvider, _retries,
                    p, <<>>)
         started == [calls[c] EXCEPT
                       !.p = p,
                       !.alone = \A d \in CallIds : ~InFlight(d)]
     IN  /\ calls' = [Disturbed(c) EXCEPT ![c] = After(started, o)]
         /\ _activeProvider' = o.act
         /\ advances' = o.adv
  /\ UNCHANGED <<uid, _providers, _retries, _shouldRetryOn, composite, initThrew>>

\* The caller applies the closure the get trap returned, to its list of
\* arguments.
Invoke(c) ==
  /\ calls[c].pc = "held"
  /\ LET args == ArgsOf(c)
         o == Call(c, _activeProvider, advances, calls[c].target,
                   calls[c].retries, calls[c].p, calls[c].tried, args)
         applied == [calls[c] EXCEPT !.args = args]
     IN  /\ calls' = [calls EXCEPT ![c] = After(applied, o)]
         /\ _activeProvider' = o.act
         /\ advances' = o.adv
  /\ UNCHANGED <<uid, _providers, _retries, _shouldRetryOn, composite, initThrew>>

\* Then going back to the first provider after a success.
ThenResets(c) ==
  /\ calls[c].pc = "pending"
  /\ LET re == Apply(_providers[calls[c].target + 1].provider, calls[c].p)
         o == Returned(_activeProvider, advances, calls[c].tried, re.v)
     IN  /\ re.settle = "resolve"
         /\ calls' = [calls EXCEPT ![c] = After(calls[c], o)]
  /\ _activeProvider' = 0
  /\ UNCHANGED <<uid, _providers, _retries, _shouldRetryOn, composite, initThrew,
                 advances>>

\* Then rotating to the next provider after a success.
ThenAdvances(c) ==
  /\ calls[c].pc = "pending"
  /\ LET re == Apply(_providers[calls[c].target + 1].provider, calls[c].p)
         o == Returned(_activeProvider, advances, calls[c].tried, re.v)
     IN  /\ re.settle = "resolve"
         /\ calls' = [calls EXCEPT ![c] = After(calls[c], o)]
  /\ _activeProvider' = (_activeProvider + 1) % Len(_providers)
  /\ UNCHANGED <<uid, _providers, _retries, _shouldRetryOn, composite, initThrew,
                 advances>>

\* The promise of the pending invocation resolves: the .then handler.
Then(c) ==
  /\ calls[c].pc = "pending"
  /\ LET re == Apply(_providers[calls[c].target + 1].provider, calls[c].p)
         o == Returned(_activeProvider, advances, calls[c].tried, re.v)
     IN  /\ re.settle = "resolve"
         /\ calls' = [calls EXCEPT ![c] = After(calls[c], o)]
  /\ UNCHANGED <<uid, _providers, _activeProvider, _retries, _shouldRetryOn,
                 composite, initThrew, advances>>

\* Catch with a timeout: a promise that does not settle is handled as a
\* rejection.
CatchOrTimeout(c) ==
  /\ calls[c].pc = "pending"
  /\ LET t == calls[c].target
         re == Apply(_providers[t + 1].provider, calls[c].p)
         er == Raised(re.cls, c, Len(calls[c].tried), t)
         o == FailoverAsync(c, _activeProvider, advances, t,
                            calls[c].retries, calls[c].p, calls[c].tried, er,
                            calls[c].args)
     IN  /\ re.settle \in {"reject", "never"}
         /\ calls' = [calls EXCEPT ![c] = After(calls[c], o)]
         /\ _activeProvider' = o.act
         /\ advances' = o.adv
  /\ UNCHANGED <<uid, _providers, _retries, _shouldRetryOn, composite, initThrew>>

\* Catch with a handler that swallows the rejection and returns a promise
\* that nothing settles: the call makes no step.
CatchIgnored(c) ==
  /\ calls[c].pc = "pending"
  /\ Apply(_providers[calls[c].target + 1].provider, calls[c].p).settle
       = "reject"
  /\ UNCHANGED vars

\* Catch on a chain that hands the caller the provider's own promise: the
\* caller receives the rejection while the retry runs on.
CatchDetached(c) ==
  /\ calls[c].pc = "pending"
  /\ LET t == calls[c].target
         re == Apply(_providers[t + 1].provider, calls[c].p)
         er == Raised(re.cls, c, Len(calls[c].tried), t)
         o == FailoverAsync(c, _activeProvider, advances, t,
                            calls[c].retries, calls[c].p, calls[c].tried, er,
                            calls[c].args)
     IN  /\ re.settle = "reject"
         /\ calls' = [calls EXCEPT
                        ![c] = After(calls[c], Thrown(o.act, o.adv, o.tried, er))]
         /\ _activeProvider' = o.act
         /\ advances' = o.adv
  /\ UNCHANGED <<uid, _providers, _retries, _shouldRetryOn, composite, initThrew>>

\* The promise of the pending invocation rejects: the .catch handler.
Catch(c) ==
  /\ calls[c].pc = "pending"
  /\ LET t == calls[c].target
         re == Apply(_providers[t + 1].provider, calls[c].p)
         er == Raised(re.cls, c, Len(calls[c].tried), t)
         o == FailoverAsync(c, _activeProvider, advances, t,
                            calls[c].retries, calls[c].p, calls[c].tried, er,
                            calls[c].args)
     IN  /\ re.settle = "reject"
         /\ calls' = [calls EXCEPT ![c] = After(calls[c], o)]
         /\ _activeProvider' = o.act
         /\ advances' = o.adv
  /\ UNCHANGED <<uid, _providers, _retries, _shouldRetryOn, composite, initThrew>>

Next ==
  \/ \E kind \in Kinds, id \in NewIds : AddProvider(kind, id)
  \/ Initialize
  \/ \E c \in CallIds, p \in Members : Get(c, p)
  \/ \E c \in CallIds : Invoke(c)
  \/ \E c \in CallIds : Then(c)
  \/ \E c \in CallIds : Catch(c)

Spec == Init /\ [][Next]_vars

(***************************************************************************)
(* The composite at work: the factory has registered up to                 *)
(* MaxLiveProviders providers of any kind, or up to MaxLivePlainProviders  *)
(* cats and cockroaches, and initialize() has returned the Proxy. The      *)
(* callers read members and apply the closures they hold when they choose  *)
(* to, or never; the handler of a promise that has settled is run in the   *)
(* end, as the job queue of the runtime does.                              *)
(***************************************************************************)
MaxLiveProviders == 2
MaxLivePlainProviders == 3

\* The entry addProvider pushes for a provider, uid() having returned id.
Entry(kind, id) == [id |-> id, provider |-> kind, ms |-> 0]

\* The lists n calls of addProvider build from providers of the kinds ks.
RECURSIVE ListsOf(_, _)
ListsOf(n, ks) ==
  IF n = 0 THEN {<<>>}
  ELSE UNION {{Append(l, Entry(k, id)) : k \in ks, id \in IdsAfter(l)} :
                l \in ListsOf(n - 1, ks)}

\* The lists 1 to MaxLiveProviders calls of addProvider build, and the lists
\* 1 to MaxLivePlainProviders calls build from the plain kinds.
LiveLists ==
  UNION ( {ListsOf(n, Kinds) : n \in 1..MaxLiveProviders}
          \cup {ListsOf(n, PlainKinds) : n \in 1..MaxLivePlainProviders} )

InitLive ==
  /\ _providers \in LiveLists
  /\ _activeProvider = 0
  /\ _retries \in 0..MaxRetries
  /\ _shouldRetryOn \in {"default", "custom"}
  /\ composite = TRUE
  /\ initThrew = FALSE
  /\ calls = [c \in CallIds |-> IdleCall]
  /\ advances = 0
  /\ uid = NoUid

\* The promise call c waits for has settled and the runtime runs the handler
\* the closure attached to it: .then on a resolution, .catch on a rejection.
Settle(c) == Then(c) \/ Catch(c)

NextLive ==
  \/ \E c \in CallIds, p \in Members : Get(c, p)
  \/ \E c \in CallIds : Invoke(c)
  \/ \E c \in CallIds : Then(c)
  \/ \E c \in CallIds : Catch(c)

\* The runtime runs the handlers of every settled promise; whether and when a
\* caller reads a member or applies a closure it holds is left to the caller.
LiveSpec ==
  InitLive /\ [][NextLive]_vars /\ \A c \in CallIds : WF_vars(Settle(c))

(***************************************************************************)
(* uid(len): the identifier generator, called on its own.                  *)
(***************************************************************************)

\* The largest len the loop of uid is run for, the number of values
\* Math.random() is drawn from, and the largest len uid accepts.
MaxUidInput == 3
RandomGrain == 20
MaxUidLength == 256

\* The values of len: those the loop is run for, 0, and the first one above
\* the accepted range.
UidLens == 0..MaxUidInput \cup {MaxUidLength + 1}

\* Math.random(): k stands for the number k / RandomGrain of [0, 1).
Randoms == 0..(RandomGrain - 1)

\* Math.round(Math.random() * 10), halves rounded up.
Round(k) == (2 * 10 * k + RandomGrain) \div (2 * RandomGrain)

DecimalDigits == <<"0", "1", "2", "3", "4", "5", "6", "7", "8", "9">>

\* The string a number is converted to by `id += number`, as the sequence of
\* its characters.
RECURSIVE ToString(_)
ToString(n) ==
  IF n < 10 THEN <<DecimalDigits[n + 1]>>
  ELSE ToString(n \div 10) \o <<DecimalDigits[(n % 10) + 1]>>

\* The fields of the failover factory, which uid does not touch.
factory == <<_providers, _activeProvider, _retries, _shouldRetryOn,
             composite, initThrew, calls, advances>>

\* uid(len) is called.
InitUid ==
  /\ Constructed
  /\ uid \in {[pc |-> "called", len |-> l, id |-> <<>>] : l \in UidLens}

\* The test of len, and `let id = ''`.
UidEnter ==
  /\ uid.pc = "called"
  /\ uid' = IF uid.len < 1 \/ uid.len > MaxUidLength
              THEN [uid EXCEPT !.pc = "threw"]
              ELSE [uid EXCEPT !.pc = "loop", !.id = <<>>]
  /\ UNCHANGED factory

\* One turn of the loop: id += Math.round(Math.random() * 10).
UidDraw(k) ==
  /\ uid.pc = "loop"
  /\ Len(uid.id) < uid.len
  /\ uid' = [uid EXCEPT !.id = uid.id \o ToString(Round(k))]
  /\ UNCHANGED factory

\* The loop ends: return id.
UidReturn ==
  /\ uid.pc = "loop"
  /\ ~(Len(uid.id) < uid.len)
  /\ uid' = [uid EXCEPT !.pc = "returned"]
  /\ UNCHANGED factory

NextUid ==
  \/ UidEnter
  \/ \E k \in Randoms : UidDraw(k)
  \/ UidReturn

UidSpec == InitUid /\ [][NextUid]_vars

(***************************************************************************)
(* The claims.                                                             *)
(***************************************************************************)

\* The entries bear identifiers of their own, as the registry supposes.
DistinctIds ==
  \A i, j \in DOMAIN _providers :
    i # j => _providers[i].id # _providers[j].id

\* The attempts of call c that count against its budget: the lookups that
\* threw and the invocations.
Attempts(c) ==
  {i \in DOMAIN calls[c].tried : calls[c].tried[i].what # "read"}

\* C1: a logical call makes at most 1 + retries attempts (failed lookups plus
\* invocations) against providers, in every interleaving with other calls.
C1_AttemptsBounded ==
  \A c \in CallIds : Cardinality(Attempts(c)) <= 1 + _retries

\* A call that ran interleaved with another has used its whole budget, and
\* retried at least once.
C1_Witness ==
  \E c \in CallIds :
    /\ calls[c].pc = "done"
    /\ ~calls[c].alone
    /\ _retries >= 1
    /\ Cardinality(Attempts(c)) = 1 + _retries

\* The provider of the entry at index i.
Kind(i) == _providers[i + 1].provider

\* The method p of entry i is a function whose invocation throws or rejects
\* with an error the policy accepts.
MethodFails(i, p) ==
  LET re == Apply(Kind(i), p) IN
  /\ ReflectGet(Kind(i), p).res = "fn"
  /\ re.res = "throw" \/ (re.res = "promise" /\ re.settle = "reject")
  /\ ShouldRetryOn(_shouldRetryOn, re.cls)

\* The method p of entry i is a function whose invocation returns or resolves.
MethodSucceeds(i, p) ==
  LET re == Apply(Kind(i), p) IN
  /\ ReflectGet(Kind(i), p).res = "fn"
  /\ re.res = "return" \/ (re.res = "promise" /\ re.settle = "resolve")

\* Call c ends in this step.
Completes(c) == calls[c].pc # "done" /\ calls'[c].pc = "done"

\* Call c is the only call made so far on the composite, and no provider
\* has been added since it began.
OnlyCall(c) ==
  calls[c].fixed /\ \A d \in CallIds \ {c} : calls[d].pc = "idle"

\* The entries call c attempted, in order.
TriedIdx(c) == [i \in DOMAIN calls[c].tried |-> calls[c].tried[i].idx]

\* C2: on a fresh composite with no other call in flight, if providers
\* 0..k-1 fail the method with errors the policy accepts and provider k
\* succeeds (k < N, k <= retries), the call returns provider k's value and the
\* index has advanced exactly k times, ending at k; for synchronous and for
\* asynchronous methods.
C2_ReturnsFirstHealthy ==
  [][\A c \in CallIds :
       (Completes(c) /\ OnlyCall(c)' /\ calls[c].p \in {"syncSpeak", "speak"})
       => \A k \in 0..(Len(_providers) - 1) :
            ( /\ k <= _retries
              /\ \A i \in 0..(k - 1) : MethodFails(i, calls[c].p)
              /\ MethodSucceeds(k, calls[c].p) )
            => /\ calls'[c].res = "value"
               /\ calls'[c].val = Apply(Kind(k), calls[c].p).v
               /\ _activeProvider' = k
               /\ advances' = k
               /\ TriedIdx(c)' = [i \in 1..(k + 1) |-> i - 1]]_vars

\* An asynchronous call on a fresh composite has returned the value of the
\* third provider after two failovers.
C2_Witness ==
  \E c \in CallIds :
    /\ calls[c].pc = "done" /\ OnlyCall(c)
    /\ calls[c].p = "speak" /\ calls[c].res = "value"
    /\ MethodFails(0, "speak") /\ MethodFails(1, "speak")
    /\ MethodSucceeds(2, "speak")
    /\ _activeProvider = 2 /\ advances = 2

\* The operation p fails on entry i with an error the policy accepts: the
\* lookup throws, or the member is a function that throws or rejects.
FailsRetryably(i, p) ==
  \/ /\ ReflectGet(Kind(i), p).res = "throw"
     /\ ShouldRetryOn(_shouldRetryOn, ReflectGet(Kind(i), p).cls)
  \/ MethodFails(i, p)

\* The class of the error the operation p raises on entry i.
FailureClass(i, p) ==
  IF ReflectGet(Kind(i), p).res = "throw"
    THEN ReflectGet(Kind(i), p).cls
    ELSE Apply(Kind(i), p).cls

\* The retries + 1 providers that follow in rotation order the entry call c
\* attempted first all fail p with errors the policy accepts.
AllFailInRotation(c) ==
  /\ calls[c].tried # <<>>
  /\ \A i \in 0.._retries :
       FailsRetryably((calls[c].tried[1].idx + i) % Len(_providers), calls[c].p)

\* Call c ended with the error its (retries + 1)-th attempt raised, which is
\* its last, and attempted no provider beyond the retries + 1 that follow in
\* rotation order the one it attempted first.
EndedOnLastAttempted(c) ==
  LET s == calls[c].tried[1].idx
      n == Len(_providers)
      last == calls[c].tried[Len(calls[c].tried)].idx
  IN  /\ calls[c].res = "error"
      /\ Len(calls[c].tried) = _retries + 1
      /\ calls[c].err =
           Raised(FailureClass(last, calls[c].p), c, _retries + 1, last)
      /\ \A i \in DOMAIN calls[c].tried :
           calls[c].tried[i].idx \in {(s + j) % n : j \in 0.._retries}

\* C3 as stated: whenever retries is smaller than the number of consecutively
\* failing providers in rotation order (the list being the same throughout
\* the call), the call ends with the error of its (retries + 1)-th attempt
\* and attempts no provider beyond it. The statement is taken on the lists
\* whose entries bear distinct identifiers, where it already fails.
C3_Original ==
  [][\A c \in CallIds :
       ( /\ Completes(c) /\ calls'[c].fixed /\ DistinctIds
         /\ AllFailInRotation(c)' )
       => EndedOnLastAttempted(c)']_vars

\* C3, amended: the same, on every list, for a call with no other logical
\* call in flight.
C3_ExhaustedEndsOnLastAttempted ==
  [][\A c \in CallIds :
       (Completes(c) /\ calls'[c].fixed /\ calls'[c].alone
          /\ AllFailInRotation(c)')
       => EndedOnLastAttempted(c)']_vars

\* A call with retries = 1 has ended with the second provider's error while
\* the third provider is healthy.
C3_Witness ==
  \E c \in CallIds :
    /\ calls[c].pc = "done" /\ calls[c].alone /\ calls[c].fixed
    /\ _retries = 1 /\ Len(_providers) = 3
    /\ calls[c].p \in {"syncSpeak", "speak"}
    /\ AllFailInRotation(c) /\ EndedOnLastAttempted(c)
    /\ TriedIdx(c) = <<0, 1>>
    /\ MethodSucceeds(2, calls[c].p)

\* The i-th attempt of call c has failed: a lookup that threw, or an
\* invocation that threw or whose promise has rejected.
Failed(c, i) ==
  LET a == calls[c].tried[i]
      re == Apply(Kind(a.idx), calls[c].p)
  IN  \/ a.what = "lookup"
      \/ /\ a.what = "invoke"
         /\ re.res = "throw" \/ (re.res = "promise" /\ re.settle = "reject")
         /\ ~(i = Len(calls[c].tried) /\ calls[c].pc = "pending")

\* The error the i-th attempt of call c raised.
ErrorOf(c, i) ==
  LET a == calls[c].tried[i] IN
  Raised(FailureClass(a.idx, calls[c].p), c, i, a.idx)

\* The failures call c handles in this step by switching and retrying, when
\* the step ends the call with an error: every attempt the step makes but the
\* last, and the pending attempt the step began with.
RetriedInStep(c) ==
  IF calls[c].pc = "pending"
    THEN Len(calls'[c].tried) - Len(calls[c].tried)
    ELSE Len(calls'[c].tried) - Len(calls[c].tried) - 1

\* C4: when an attempt fails with an error the policy refuses, the call
\* propagates that error at once: it is the call's last attempt, whatever
\* budget remains, and the refused failure does not advance the index (the
\* step advances it at most once per failure it retried before). For failed
\* lookups, synchronous throws and asynchronous rejections.
C4_RefusedErrorPropagates ==
  [][\A c \in CallIds :
       /\ \A i \in DOMAIN calls'[c].tried :
            (Failed(c, i)' /\ ~ShouldRetryOn(_shouldRetryOn, ErrorOf(c, i)'.cls))
            => /\ i = Len(calls'[c].tried)
               /\ calls'[c].pc = "done"
               /\ calls'[c].res = "error"
               /\ calls'[c].err = ErrorOf(c, i)'
       /\ ( /\ Completes(c)
            /\ calls'[c].res = "error"
            /\ ~ShouldRetryOn(_shouldRetryOn, calls'[c].err.cls) )
          => /\ advances' <= advances + RetriedInStep(c)
             /\ RetriedInStep(c) = 0
                  => _activeProvider' = _activeProvider]_vars

\* An asynchronous call has ended on its first attempt with an error the
\* policy refuses, with its budget untouched and a healthy provider next.
C4_Witness ==
  \E c \in CallIds :
    /\ calls[c].pc = "done" /\ calls[c].res = "error"
    /\ calls[c].p = "speak" /\ calls[c].aw
    /\ ~ShouldRetryOn(_shouldRetryOn, calls[c].err.cls)
    /\ _retries = 2 /\ Len(calls[c].tried) = 1
    /\ Len(_providers) >= 2
    /\ MethodSucceeds((calls[c].tried[1].idx + 1) % Len(_providers), "speak")
    /\ _activeProvider = calls[c].tried[1].idx

\* C5: the error a failed call delivers is the very error its most recent
\* attempt raised: not one of an earlier attempt, not one raised for another
\* call, not an error made by the engine.
C5_LastErrorVerbatim ==
  \A c \in CallIds :
    calls[c].res = "error"
    => /\ calls[c].pc = "done"
       /\ calls[c].tried # <<>>
       /\ Failed(c, Len(calls[c].tried))
       /\ calls[c].err = ErrorOf(c, Len(calls[c].tried))

\* Two interleaved calls have both failed after a retry, each with the error
\* of its own last attempt.
C5_Witness ==
  \E c, d \in CallIds :
    /\ c # d
    /\ calls[c].res = "error" /\ calls[d].res = "error"
    /\ ~calls[c].alone
    /\ Len(calls[c].tried) >= 2 /\ Len(calls[d].tried) >= 2
    /\ calls[c].err # calls[d].err
    /\ calls[c].tried[1].idx # calls[c].err.by

\* The i-th attempt of call c and the j-th attempt of call d are invocations
\* of the same entry, made while it was the active one and before the index
\* moved on, and both have failed and been retried.
RacePair(c, i, d, j) ==
  LET a == calls[c].tried[i]
      b == calls[d].tried[j]
  IN  /\ c # d
      /\ i < Len(calls[c].tried) /\ j < Len(calls[d].tried)
      /\ a.what = "invoke" /\ b.what = "invoke"
      /\ a.idx = b.idx /\ a.ep = b.ep
      /\ a.on = a.idx /\ b.on = b.idx
      /\ calls[c].fixed /\ calls[d].fixed

\* Call d handles in this step the failure of its j-th attempt.
Handles(d, j) ==
  /\ calls[d].pc = "pending"
  /\ Len(calls[d].tried) = j
  /\ Len(calls'[d].tried) > j

\* After the second of the two failures is handled, both calls have retried
\* on the entry one position after the failed one, which is the active one.
RetriedOnNext(c, i, d, j) ==
  LET next == (calls[c].tried[i].idx + 1) % Len(_providers) IN
  /\ calls[c].tried[i + 1].idx = next
  /\ calls[d].tried[j + 1].idx = next
  /\ calls[d].tried[j + 1].on = next

\* C6 as stated: when two calls in flight have both attempted the entry X
\* while it was active and both attempts fail with errors the policy accepts,
\* then once both failures are handled the index is one position after X and
\* both calls have retried on that same entry. The statement is taken on the
\* lists whose entries bear distinct identifiers, where it already fails.
C6_Original ==
  [][\A c, d \in CallIds :
       \A i \in DOMAIN calls'[c].tried, j \in DOMAIN calls'[d].tried :
         (Handles(d, j) /\ RacePair(c, i, d, j)' /\ DistinctIds)
         => RetriedOnNext(c, i, d, j)']_vars

\* C6, amended: when the second failure is handled before any further failure
\* has advanced the index, it keeps the index one position after X and both
\* calls have retried on that same entry, unless the entry after X bears the
\* identifier of X: then the second failure advances the index once more.
C6_OneAdvancePerRace ==
  [][\A c, d \in CallIds :
       \A i \in DOMAIN calls'[c].tried, j \in DOMAIN calls'[d].tried :
         ( /\ Handles(d, j) /\ RacePair(c, i, d, j)'
           /\ advances = calls[d].tried[j].ep + 1 )
         => LET X == calls[d].tried[j].idx
                next == (X + 1) % Len(_providers)
            IN  IF _providers[next + 1].id = _providers[X + 1].id
                  THEN calls'[d].tried[j + 1].ep = advances + 1
                  ELSE RetriedOnNext(c, i, d, j)']_vars

\* Two calls have failed on the first of three providers while it was active
\* and both have retried on the second, the index having advanced once.
C6_Witness ==
  \E c, d \in CallIds :
    /\ Len(_providers) = 3 /\ DistinctIds
    /\ Len(calls[c].tried) >= 2 /\ Len(calls[d].tried) >= 2
    /\ RacePair(c, 1, d, 1)
    /\ calls[c].tried[1].idx = 0
    /\ calls[c].tried[2].idx = 1 /\ calls[d].tried[2].idx = 1
    /\ _activeProvider = 1 /\ advances = 1

\* Call c makes its i-th attempt in this step.
MakesAttempt(c, i) ==
  i \in DOMAIN calls'[c].tried /\ i > Len(calls[c].tried)

\* C7: a lookup that raises is handled like a failed invocation: with budget
\* left and an error the policy accepts, the index advances by the rule of
\* _switch (the failed entry being the active one, to the next position) and
\* the read is re-attempted there, one attempt of the budget being used;
\* otherwise the raised error is propagated. In particular a getter that
\* throws on provider 0 and returns v on provider 1 makes the read return v.
C7_FailedLookupFailsOver ==
  [][\A c \in CallIds :
       /\ \A i \in 1..(MaxRetries + 2) :
            (MakesAttempt(c, i) /\ calls'[c].tried[i].what = "lookup")
            => LET a == calls'[c].tried[i] IN
               IF _retries - (i - 1) > 0
                    /\ ShouldRetryOn(_shouldRetryOn, ErrorOf(c, i)'.cls)
                 THEN /\ MakesAttempt(c, i + 1)
                      /\ a.on = a.idx
                      /\ calls'[c].tried[i + 1].idx =
                           (a.idx + 1) % Len(_providers)
                      /\ calls'[c].tried[i + 1].on =
                           calls'[c].tried[i + 1].idx
                      /\ calls'[c].tried[i + 1].ep = a.ep + 1
                 ELSE /\ i = Len(calls'[c].tried)
                      /\ calls'[c].pc = "done"
                      /\ calls'[c].res = "error"
                      /\ calls'[c].err = ErrorOf(c, i)'
       /\ ( /\ Completes(c) /\ OnlyCall(c)'
            /\ _retries >= 1 /\ Len(_providers) >= 2
            /\ ReflectGet(Kind(0), calls'[c].p).res = "throw"
            /\ ShouldRetryOn(_shouldRetryOn, ReflectGet(Kind(0), calls'[c].p).cls)
            /\ ReflectGet(Kind(1), calls'[c].p).res = "value" )
          => /\ calls'[c].res = "value"
             /\ calls'[c].val = ReflectGet(Kind(1), calls'[c].p).v
             /\ _activeProvider' = 1]_vars

\* The read of the getter has thrown on provider 0, been retried on provider
\* 1 and returned its value.
C7_Witness ==
  \E c \in CallIds :
    /\ calls[c].pc = "done" /\ OnlyCall(c) /\ calls[c].p = "SOUND"
    /\ Len(calls[c].tried) = 2
    /\ calls[c].tried[1].what = "lookup" /\ calls[c].tried[1].idx = 0
    /\ calls[c].tried[2].what = "read" /\ calls[c].tried[2].idx = 1
    /\ calls[c].res = "value" /\ calls[c].val = Sound(Kind(1))
    /\ _activeProvider = 1

\* Call c begins in this step: the get trap runs.
Begins(c) == calls[c].pc = "idle" /\ calls'[c].pc # "idle"

\* C8: a read of a non-function member that does not raise returns the value
\* the provider at the active index holds at the time of the read, makes
\* exactly one attempt, uses no retry and leaves the active index unchanged.
C8_PlainReadFromActive ==
  [][\A c \in CallIds :
       ( /\ Begins(c)
         /\ ReflectGet(Kind(_activeProvider), calls'[c].p).res = "value" )
       => /\ calls'[c].pc = "done"
          /\ calls'[c].res = "value"
          /\ calls'[c].val = ReflectGet(Kind(_activeProvider), calls'[c].p).v
          /\ calls'[c].tried =
               <<Attempt(_activeProvider, "read", advances, _activeProvider)>>
          /\ ~calls'[c].aw
          /\ _activeProvider' = _activeProvider
          /\ advances' = advances]_vars

\* After a failover to the second provider, a property has been read from
\* it in one attempt.
C8_Witness ==
  \E c \in CallIds :
    /\ calls[c].pc = "done" /\ calls[c].p = "name"
    /\ calls[c].res = "value"
    /\ Len(calls[c].tried) = 1 /\ calls[c].tried[1].idx = 1
    /\ calls[c].val = Kind(1) /\ Kind(0) # Kind(1)
    /\ _activeProvider = 1

\* C9: initialize() on a factory without providers throws and produces no
\* composite; the step attempts nothing on any provider (no call moves) and
\* leaves the provider list and the active index as they were. With at least
\* one provider registered, initialize() does not throw, and only then is a
\* composite produced.
C9_InitializeOnEmptyThrows ==
  [][/\ (Len(_providers) = 0) => ~composite'
     /\ (initThrew' /\ ~initThrew)
        => /\ Len(_providers) = 0
           /\ ~composite'
           /\ UNCHANGED <<_providers, _activeProvider, calls, advances>>
     /\ (Len(_providers) > 0 /\ ~initThrew) => ~initThrew'
     /\ (composite' /\ ~composite)
        => /\ Len(_providers) > 0
           /\ ~initThrew'
           /\ UNCHANGED <<_providers, _activeProvider, calls, advances>>]_vars

\* initialize() has thrown on the empty list and there is no composite.
C9_Witness ==
  /\ initThrew /\ ~composite
  /\ _providers = <<>> /\ _activeProvider = 0
  /\ \A c \in CallIds : calls[c] = IdleCall

\* No access has been made on the composite yet.
Untouched == \A c \in CallIds : calls[c] = IdleCall

\* C10: after any non-empty sequence of addProvider calls and initialize(),
\* the active entry is the first-registered one, and the first access on
\* the composite makes its first attempt (or binds its closure) on provider 0.
C10_FirstAccessOnFirstProvider ==
  /\ [](Untouched => _activeProvider = 0)
  /\ [][\A c \in CallIds :
          (Untouched /\ Begins(c))
          => /\ Len(_providers) > 0
             /\ IF calls'[c].pc = "held"
                  THEN calls'[c].target = 0 /\ calls'[c].tried = <<>>
                  ELSE calls'[c].tried[1].idx = 0
                       /\ calls'[c].tried[1].on = 0]_vars

\* The first access on a composite over several providers has made its
\* first attempt on the first-registered one.
C10_Witness ==
  \E c \in CallIds :
    /\ composite /\ Len(_providers) >= 2
    /\ \A d \in CallIds \ {c} : calls[d] = IdleCall
    /\ calls[c].pc = "done"
    /\ calls[c].tried[1].idx = 0
    /\ _providers[1].id = 1

\* The index and the count of its advancements are left as they were.
IndexKept == _activeProvider' = _activeProvider /\ advances' = advances

\* C11: a method call whose first attempt succeeds returns the value of the
\* provider that was active when the member was accessed, makes exactly one
\* attempt and leaves the active index unchanged, for a synchronous method
\* (the value is returned by the invocation) and for an asynchronous one (the
\* promise resolves with it).
C11_FirstAttemptSucceeds ==
  [][\A c \in CallIds :
       /\ (Begins(c) /\ calls'[c].pc = "held" /\ calls'[c].tried = <<>>)
          => calls'[c].target = _activeProvider /\ IndexKept
       /\ ( /\ calls[c].pc = "held" /\ calls'[c].pc # "held"
            /\ calls[c].tried = <<>>
            /\ MethodSucceeds(calls[c].target, calls[c].p) )
          => /\ calls'[c].tried =
                  <<Invocation(c, calls[c].target, advances,
                               _activeProvider, calls[c].target, ArgsOf(c))>>
             /\ IndexKept
             /\ IF Apply(Kind(calls[c].target), calls[c].p).res = "return"
                  THEN /\ calls'[c].pc = "done" /\ calls'[c].res = "value"
                       /\ calls'[c].val =
                            Apply(Kind(calls[c].target), calls[c].p).v
                  ELSE calls'[c].pc = "pending"
                       /\ calls'[c].target = calls[c].target
       /\ ( /\ calls[c].pc = "pending" /\ calls'[c].pc # "pending"
            /\ Len(calls[c].tried) = 1
            /\ MethodSucceeds(calls[c].target, calls[c].p) )
          => /\ calls'[c].pc = "done" /\ calls'[c].res = "value"
             /\ calls'[c].val = Apply(Kind(calls[c].target), calls[c].p).v
             /\ calls'[c].tried = calls[c].tried
             /\ calls[c].tried[1].idx = calls[c].target
             /\ IndexKept]_vars

\* After a failover to the second provider, an asynchronous call has
\* resolved with that provider's value on its first attempt.
C11_Witness ==
  \E c \in CallIds :
    /\ calls[c].pc = "done" /\ calls[c].p = "speak" /\ calls[c].aw
    /\ calls[c].res = "value"
    /\ Len(calls[c].tried) = 1 /\ calls[c].tried[1].idx = 1
    /\ calls[c].val = Sound(Kind(1))
    /\ _activeProvider = 1

\* Every registered provider fails the operation p with an error the policy
\* accepts.
AllFail(p) == \A i \in 0..(Len(_providers) - 1) : FailsRetryably(i, p)

\* The attempts of call c went round the list in cyclic order from the entry
\* that was active at its first attempt.
CyclicFromActive(c) ==
  /\ calls[c].tried[1].idx = calls[c].tried[1].on
  /\ \A j \in DOMAIN calls[c].tried :
       calls[c].tried[j].idx =
         (calls[c].tried[1].idx + j - 1) % Len(_providers)

\* C12: with N providers that all fail with retryable errors and
\* retries >= N, a call with no other call in flight attempts the providers in
\* cyclic order from the active index, wraps around to providers that have
\* already failed, and stops with the error after exactly 1 + retries
\* attempts.
C12_WrapsAroundInCyclicOrder ==
  [][\A c \in CallIds :
       ( /\ Completes(c) /\ calls'[c].alone /\ calls'[c].fixed
         /\ _retries >= Len(_providers)
         /\ AllFail(calls'[c].p) )
       => /\ Len(calls'[c].tried) = 1 + _retries
          /\ CyclicFromActive(c)'
          /\ calls'[c].tried[Len(_providers) + 1].idx = calls'[c].tried[1].idx
          /\ calls'[c].res = "error"]_vars

\* With two failing providers and retries = 2, a call has attempted the
\* first, the second and the first again.
C12_Witness ==
  \E c \in CallIds :
    /\ calls[c].pc = "done" /\ calls[c].alone /\ calls[c].fixed
    /\ Len(_providers) = 2 /\ _retries = 2
    /\ AllFail(calls[c].p)
    /\ TriedIdx(c) = <<0, 1, 0>>
    /\ calls[c].res = "error"

\* C13: with N providers and retries = N - 1, a call whose every attempt
\* fails with a retryable error, run with no other call in flight, attempts
\* each of the N providers exactly once before the error is thrown.
C13_EachProviderOnce ==
  [][\A c \in CallIds :
       ( /\ Completes(c) /\ calls'[c].alone /\ calls'[c].fixed
         /\ _retries = Len(_providers) - 1
         /\ AllFail(calls'[c].p) )
       => /\ calls'[c].res = "error"
          /\ Len(calls'[c].tried) = Len(_providers)
          /\ \A i \in 0..(Len(_providers) - 1) :
               Cardinality({j \in DOMAIN calls'[c].tried :
                              calls'[c].tried[j].idx = i}) = 1]_vars

\* With three failing providers and retries = 2, a call has attempted each
\* of them once and ended with the error of the third.
C13_Witness ==
  \E c \in CallIds :
    /\ calls[c].pc = "done" /\ calls[c].alone /\ calls[c].fixed
    /\ Len(_providers) = 3 /\ _retries = 2
    /\ AllFail(calls[c].p)
    /\ TriedIdx(c) = <<0, 1, 2>>
    /\ calls[c].res = "error" /\ calls[c].err.by = 2

\* The budget left when call c makes its i-th attempt: every attempt before
\* it failed and was retried.
BudgetAt(i) == _retries - (i - 1)

\* C14 as stated: under the default policy every failed attempt made with
\* budget remaining is followed by another attempt of the call, whatever
\* value was raised.
C14_Original ==
  [][\A c \in CallIds : \A i \in DOMAIN calls'[c].tried :
       ( /\ _shouldRetryOn = "default"
         /\ Failed(c, i)' /\ BudgetAt(i) > 0 )
       => i < Len(calls'[c].tried)]_vars

\* C14, amended: under the default policy a failed attempt made with budget
\* remaining is followed by another attempt exactly when the raised value is
\* an Error instance; any other raised value is propagated at once.
C14_DefaultRetriesErrorInstances ==
  [][\A c \in CallIds : \A i \in DOMAIN calls'[c].tried :
       ( /\ _shouldRetryOn = "default"
         /\ Failed(c, i)' /\ BudgetAt(i) > 0 )
       => IF InstanceOfError(ErrorOf(c, i)'.cls)
            THEN i < Len(calls'[c].tried)
            ELSE /\ i = Len(calls'[c].tried)
                 /\ calls'[c].pc = "done"
                 /\ calls'[c].res = "error"
                 /\ calls'[c].err = ErrorOf(c, i)']_vars

\* Under the default policy a call has failed over after a TypeError, an
\* instance of a class that extends Error, and has then propagated a raised
\* value that is not an Error instance, with budget left.
C14_Witness ==
  \E c \in CallIds :
    /\ _shouldRetryOn = "default" /\ _retries = 2
    /\ Len(_providers) >= 2
    /\ calls[c].pc = "done" /\ calls[c].res = "error"
    /\ TriedIdx(c) = <<0, 1>>
    /\ ErrorOf(c, 1).cls = "TypeError"
    /\ InstanceOfError(ErrorOf(c, 1).cls)
    /\ calls[c].err.cls = "StringThrown"
    /\ ~InstanceOfError(calls[c].err.cls)

\* C15: in every state reached after initialize() has succeeded, whatever
\* accesses, failures, retries and further addProvider calls have interleaved,
\* the active index i satisfies 0 <= i < number of registered providers.
C15_ActiveIndexInRange ==
  composite => _activeProvider \in 0..(Len(_providers) - 1)

\* The index has wrapped around to the first entry after failures handled by
\* two calls, a provider having been added while a call was in flight.
C15_Witness ==
  /\ composite /\ Len(_providers) = 3
  /\ advances >= 3 /\ _activeProvider = 0
  /\ \E c \in CallIds : ~calls[c].fixed /\ calls[c].pc = "done"

\* The value the i-th attempt of call c gave, when it succeeded.
ValueOf(c, i) ==
  LET a == calls[c].tried[i] IN
  IF a.what = "read"
    THEN ReflectGet(Kind(a.idx), calls[c].p).v
    ELSE Apply(Kind(a.idx), calls[c].p).v

\* The caller of c holds a promise that has settled.
Settled(c) == calls[c].aw /\ calls[c].pc = "done"

\* C16: the promise an asynchronous call hands to its caller settles once,
\* with the value of the call's first successful attempt (every attempt
\* before it failed) or with the error of its final attempt; while attempts
\* remain to be made nothing is delivered, so the error of an attempt that
\* was followed by a retry never reaches the caller; once settled, the
\* outcome does not change and no further attempt is made. (The promise
\* stays pending as long as the provider's own promise does.)
C16_PromiseSettlesOnce ==
  /\ [](\A c \in CallIds :
          /\ (calls[c].aw /\ calls[c].pc # "done")
             => /\ calls[c].pc = "pending"
                /\ calls[c].res = "none" /\ calls[c].err = NoError
          /\ Settled(c)
             => LET n == Len(calls[c].tried) IN
                /\ n >= 1
                /\ \A i \in 1..(n - 1) : Failed(c, i)
                /\ IF calls[c].res = "value"
                     THEN ~Failed(c, n) /\ calls[c].val = ValueOf(c, n)
                          /\ calls[c].err = NoError
                     ELSE calls[c].res = "error" /\ Failed(c, n)
                          /\ calls[c].err = ErrorOf(c, n))
  /\ [][\A c \in CallIds :
          /\ calls[c].aw => calls'[c].aw
          /\ Settled(c) => calls'[c] = calls[c]]_vars

\* A promise has resolved with the third provider's value after two
\* rejections that were retried, and another has rejected with the error of
\* its final attempt after a retry.
C16_Witness ==
  \E c, d \in CallIds :
    /\ c # d /\ Settled(c) /\ Settled(d)
    /\ calls[c].p = "speak" /\ calls[d].p = "speak"
    /\ calls[c].res = "value" /\ Len(calls[c].tried) = 3
    /\ calls[d].res = "error" /\ Len(calls[d].tried) >= 2
    /\ calls[d].err.n = Len(calls[d].tried)

\* The invocation attempts of call c that complete in this step: those the
\* step makes, and the pending one it began with, but not one that is
\* pending when the step ends.
CompletedInStep(c) ==
  {i \in DOMAIN calls'[c].tried :
     /\ calls'[c].tried[i].what = "invoke"
     /\ i > Len(calls[c].tried)
          \/ (i = Len(calls[c].tried) /\ calls[c].pc = "pending")
     /\ ~(i = Len(calls'[c].tried) /\ calls'[c].pc = "pending")}

\* C17: after every completed invocation attempt against an entry, failed
\* or not, synchronous or not, the entry's stored latency ms has been updated
\* by the attempt: it holds the duration of the last attempt completed
\* against the entry, which is not zero after an invocation that waited its
\* pace; a step that completes no invocation (a read of a non-function
\* member) changes no latency.
C17_LatencyRecorded ==
  [][\A c \in CallIds :
       /\ \A i \in CompletedInStep(c) :
            LET e == calls'[c].tried[i].idx IN
            ( /\ \A j \in CompletedInStep(c) :
                   j > i => calls'[c].tried[j].idx # e
              /\ Pace(Kind(e), calls'[c].p) > 0 )
            => _providers'[e + 1].ms > 0
       /\ (\A d \in CallIds : CompletedInStep(d) = {})
          => \A e \in DOMAIN _providers : _providers'[e].ms = _providers[e].ms
     ]_vars

\* The provider kind has no member p: the lookup gives undefined.
Lacks(kind, p) == kind = "Rock" /\ p = "SOUND"

\* The entry after i in rotation order.
NextOf(i) == (i + 1) % Len(_providers)

\* C18 as stated: an access to a member the active provider lacks, made with
\* budget remaining, advances the index and is re-attempted on the next
\* provider, so that a member missing on one provider and present on the
\* next yields the next provider's member.
C18_Original ==
  [][\A c \in CallIds :
       ( /\ Begins(c)
         /\ _retries >= 1 /\ Len(_providers) >= 2
         /\ Lacks(Kind(_activeProvider), calls'[c].p)
         /\ ReflectGet(Kind(NextOf(_activeProvider)), calls'[c].p).res = "value"
         /\ ~Lacks(Kind(NextOf(_activeProvider)), calls'[c].p) )
       => /\ calls'[c].res = "value"
          /\ calls'[c].val =
               ReflectGet(Kind(NextOf(_activeProvider)), calls'[c].p).v
          /\ _activeProvider' = NextOf(_activeProvider)]_vars

\* C18, amended: an access to a member the active provider lacks is a
\* successful read of undefined: the call returns undefined after that one
\* attempt, uses no retry and leaves the index where it was, whatever the
\* next provider holds.
C18_MissingMemberReadsUndefined ==
  [][\A c \in CallIds :
       (Begins(c) /\ Lacks(Kind(_activeProvider), calls'[c].p))
       => /\ calls'[c].pc = "done"
          /\ calls'[c].res = "value"
          /\ calls'[c].val = "undefined"
          /\ calls'[c].tried =
               <<Attempt(_activeProvider, "read", advances, _activeProvider)>>
          /\ IndexKept]_vars

\* With budget left, the read of a member the first provider lacks and the
\* second holds has returned undefined, the index staying on the first.
C18_Witness ==
  \E c \in CallIds :
    /\ calls[c].pc = "done" /\ calls[c].p = "SOUND" /\ OnlyCall(c)
    /\ _retries >= 1 /\ Len(_providers) >= 2
    /\ Lacks(Kind(0), "SOUND") /\ ~Lacks(Kind(1), "SOUND")
    /\ ReflectGet(Kind(1), "SOUND").res = "value"
    /\ calls[c].res = "value" /\ calls[c].val = "undefined"
    /\ TriedIdx(c) = <<0>> /\ _activeProvider = 0

\* The active index, and the count of advancements, at the time the failure
\* of the i-th attempt of call c is handled in this step: those the attempt
\* found when the step made it, those of the state before the step when the
\* step handles the rejection of a pending attempt.
IndexAtFailure(c, i) ==
  IF MakesAttempt(c, i) THEN calls'[c].tried[i].on ELSE _activeProvider
AdvancesAtFailure(c, i) ==
  IF MakesAttempt(c, i) THEN calls'[c].tried[i].ep ELSE advances

\* The failures of call c that this step hands to _switch: the attempts that
\* the step follows with a retry.
Switched(c) == {i \in DOMAIN calls'[c].tried : MakesAttempt(c, i + 1)}

\* C19: _switch(failed) advances the active index by exactly one position
\* modulo the number of providers if and only if the entry at the active
\* index has the id of the failed entry, and otherwise leaves it untouched;
\* the entry it returns, on which the retry is made, is the one at the
\* resulting index; it changes nothing else, and a step without _switch
\* leaves the index alone.
C19_SwitchAdvancesOnSameId ==
  [][/\ \A c \in CallIds : \A i \in Switched(c) :
          LET before == IndexAtFailure(c, i)
              same == _providers[calls'[c].tried[i].idx + 1].id
                        = _providers[before + 1].id
              after == calls'[c].tried[i + 1].on
          IN  /\ after = IF same THEN (before + 1) % Len(_providers)
                                 ELSE before
              /\ calls'[c].tried[i + 1].ep =
                   IF same THEN AdvancesAtFailure(c, i) + 1
                           ELSE AdvancesAtFailure(c, i)
              /\ calls'[c].tried[i + 1].idx = after
              /\ i + 1 = Len(calls'[c].tried) => _activeProvider' = after
              /\ UNCHANGED <<_providers, _retries, _shouldRetryOn>>
     /\ (\A c \in CallIds : Switched(c) = {}) => IndexKept]_vars

\* One call has retried on the successor of the entry that failed, the index
\* having advanced, and another has retried on an entry that is not the
\* successor of the one that failed, the index having been kept.
C19_Witness ==
  \E c, d \in CallIds :
    /\ c # d /\ Len(calls[c].tried) >= 2 /\ Len(calls[d].tried) >= 2
    /\ calls[c].tried[2].idx = NextOf(calls[c].tried[1].idx)
    /\ calls[c].tried[2].ep = calls[c].tried[1].ep + 1
    /\ calls[d].tried[2].idx # NextOf(calls[d].tried[1].idx)
    /\ calls[d].tried[2].idx # calls[d].tried[1].idx
    /\ calls[d].tried[2].on = calls[d].tried[2].idx

\* The handling of the failure of the i-th attempt of call c advances the
\* index in this step.
AdvancedBy(c, i) == calls'[c].tried[i + 1].ep = AdvancesAtFailure(c, i) + 1

\* How often the index has advanced between the start of the i-th attempt of
\* call c and the handling of its failure in this step.
MovedSince(c, i) == AdvancesAtFailure(c, i) - calls'[c].tried[i].ep

\* C20: the handling of a failed attempt on entry X advances the index only
\* if the index has not changed since the attempt started; if other failures
\* have changed it in the meantime, the index is kept. The statement is taken
\* on the lists of at least two entries of distinct identifiers that stay the
\* same throughout the call, where it already fails.
C20_Original ==
  [][\A c \in CallIds : \A i \in Switched(c) :
       ( /\ calls'[c].fixed /\ Len(_providers) >= 2 /\ DistinctIds
         /\ MovedSince(c, i) > 0 )
       => ~AdvancedBy(c, i)]_vars

\* Call c waits for a promise of its provider that never settles.
Hangs(c) ==
  /\ calls[c].pc = "pending"
  /\ Apply(Kind(calls[c].target), calls[c].p).settle = "never"

\* C21: a logical call whose attempts all settle ends in the end, with a
\* value or with an error, whatever the other calls do. The invocation of
\* the closure runs the synchronous attempts in one step, which ends the call
\* or leaves it waiting for a promise; from every state in which it waits
\* for a promise, it is eventually done, unless it comes to wait for an
\* attempt that never settles.
C21_CallsEnd ==
  \A c \in CallIds :
    (calls[c].pc = "pending" /\ ~Hangs(c))
      ~> (calls[c].pc = "done" \/ Hangs(c))

\* On three providers two interleaved asynchronous calls, each left waiting
\* for a promise by its invocation, have both ended after retries, one of
\* them by propagating the error of its third attempt.
C21_Witness ==
  \E c, d \in CallIds :
    /\ c # d /\ calls[c].pc = "done" /\ calls[d].pc = "done"
    /\ Len(_providers) = 3
    /\ calls[c].aw /\ calls[d].aw /\ ~calls[c].alone
    /\ Len(calls[c].tried) = 3 /\ Len(calls[d].tried) >= 2
    /\ calls[c].res = "error"

\* What call c has done and may still do: its position, its attempts, the
\* entry its closure is bound to, its budget and what its caller received.
Progress(c) ==
  <<calls[c].pc, calls[c].tried, calls[c].target, calls[c].retries,
    calls[c].res, calls[c].val, calls[c].err>>

\* C22: a call whose attempt returned a promise that never settles stays
\* pending: it makes no further attempt, keeps its remaining budget unused
\* and never advances the index; the index moves only in steps of other
\* calls.
C22_HangingCallStaysPending ==
  [][\A c \in CallIds :
       Hangs(c)
       => /\ Hangs(c)'
          /\ Progress(c)' = Progress(c)
          /\ (\A d \in CallIds \ {c} : Progress(d)' = Progress(d))
             => IndexKept]_vars

\* A call waits, with budget left and a healthy provider next in the list,
\* for a promise that never settles, while another call has begun and ended
\* on the same provider.
C22_Witness ==
  \E c \in CallIds : \E d \in CallIds \ {c} :
    /\ Hangs(c) /\ calls[c].retries >= 1 /\ Len(_providers) >= 2
    /\ MethodSucceeds(NextOf(calls[c].target), calls[c].p)
    /\ ~calls[c].alone /\ calls[d].pc = "done"
    /\ _activeProvider = calls[c].target

\* C23: every invocation attempt of a logical call, the first and each retry
\* on another provider, after a synchronous failure or a rejection, is applied
\* to the argument list the caller passed, with the provider of the entry
\* that serves the attempt as the receiver, whatever entry is active by then.
C23_SameArgumentsEveryAttempt ==
  \A c \in CallIds : \A i \in DOMAIN calls[c].tried :
    calls[c].tried[i].what = "invoke"
    => /\ calls[c].tried[i].args = ArgsOf(c)
       /\ calls[c].tried[i].recv = calls[c].tried[i].idx

\* Two interleaved calls with different argument lists have each invoked
\* the method on several providers, one of them after an asynchronous
\* rejection, the other on an entry that was no longer the active one.
C23_Witness ==
  \E c, d \in CallIds :
    /\ c # d /\ ArgsOf(c) # ArgsOf(d)
    /\ ~calls[c].alone /\ calls[c].aw
    /\ Len(calls[c].tried) = 3 /\ Len(calls[d].tried) >= 2
    /\ \A i \in 1..3 : calls[c].tried[i].what = "invoke"
    /\ calls[c].tried[2].idx # calls[c].tried[1].idx
    /\ calls[d].tried[2].what = "invoke"
    /\ calls[c].tried[3].args = <<c>> /\ calls[d].tried[2].args = <<d>>
    /\ calls[d].tried[1].what = "invoke"
    /\ calls[d].tried[1].on # calls[d].tried[1].recv

\* C24: when an invocation fails with an error that is retried and the
\* member re-resolved on the provider then active is not a function, the
\* value of that member is the result of the call, delivered the way the
\* call delivers (returned, or resolving the promise the caller holds): it
\* is the call's last attempt and no error is raised.
C24_NonFunctionOnRetryIsResult ==
  [][\A c \in CallIds : \A i \in Switched(c) :
       LET a == calls'[c].tried[i]
           b == calls'[c].tried[i + 1]
           got == ReflectGet(Kind(b.idx), calls'[c].p)
       IN  (a.what = "invoke" /\ got.res = "value")
           => /\ b.what = "read"
              /\ i + 1 = Len(calls'[c].tried)
              /\ calls'[c].pc = "done"
              /\ calls'[c].res = "value"
              /\ calls'[c].val = got.v
              /\ calls'[c].err = NoError
              /\ calls'[c].aw = calls[c].aw]_vars

\* An asynchronous call rejected by the first provider has resolved with
\* the plain value the second provider holds under the method's name.
C24_Witness ==
  \E c \in CallIds :
    /\ calls[c].pc = "done" /\ calls[c].p = "speak" /\ calls[c].aw
    /\ Len(calls[c].tried) = 2
    /\ calls[c].tried[1].what = "invoke" /\ calls[c].tried[1].idx = 0
    /\ calls[c].tried[2].what = "read" /\ calls[c].tried[2].idx = 1
    /\ Kind(1) = "Rock"
    /\ calls[c].res = "value" /\ calls[c].val = Sound("Rock")

\* The i-th attempt of call c completed synchronously: a lookup, or an
\* invocation that returned a plain value or threw.
Synchronous(c, i) ==
  \/ calls[c].tried[i].what # "invoke"
  \/ Apply(Kind(calls[c].tried[i].idx), calls[c].p).res # "promise"

\* C25: a logical call whose attempts all complete synchronously never
\* suspends: no state shows it between two of its attempts, so its attempts,
\* the advancements they cause and its return or throw are one step, which
\* no step of another call can interrupt; and its caller receives a plain
\* value or a thrown error, not a promise.
C25_SynchronousCallNeverSuspends ==
  \A c \in CallIds :
    (calls[c].tried # <<>> /\ \A i \in DOMAIN calls[c].tried : Synchronous(c, i))
    => /\ calls[c].pc = "done"
       /\ ~calls[c].aw
       /\ calls[c].res \in {"value", "error"}

\* A synchronous method call has failed over twice and returned the third
\* provider's value, all in the step that invoked it.
C25_Witness ==
  \E c \in CallIds :
    /\ calls[c].pc = "done" /\ calls[c].p = "syncSpeak" /\ ~calls[c].aw
    /\ Len(calls[c].tried) = 3
    /\ \A i \in 1..3 : Synchronous(c, i) /\ calls[c].tried[i].what = "invoke"
    /\ calls[c].tried[3].ep = calls[c].tried[1].ep + 2
    /\ calls[c].res = "value"

\* The synchronous and the asynchronous method have the same outcome on
\* entry i: both are missing as functions with the same value, or the one
\* returns what the other resolves with, or the one throws what the other
\* rejects with.
SameOutcome(i) ==
  LET gs == ReflectGet(Kind(i), "syncSpeak")
      ga == ReflectGet(Kind(i), "speak")
      s == Apply(Kind(i), "syncSpeak")
      a == Apply(Kind(i), "speak")
  IN  /\ gs = ga
      /\ gs.res = "fn"
         => \/ s.res = "return" /\ a.settle = "resolve" /\ s.v = a.v
            \/ s.res = "throw" /\ a.settle = "reject" /\ s.cls = a.cls

\* The call of the synchronous method made on the composite with the index
\* at act, after adv advancements: the get trap, then the closure applied.
SyncRun(c, act, adv) ==
  LET pr == Proxy(c, act, adv, act, _retries, "syncSpeak", <<>>) IN
  IF pr.kind = "closure"
    THEN Call(c, pr.act, pr.adv, pr.target, pr.retries, "syncSpeak", pr.tried,
              ArgsOf(c))
    ELSE pr

\* C26: with the same providers, policy, retries and outcome on each
\* provider, and no other call in flight, a call of the asynchronous method,
\* whose rejections the .catch handler handles (Catch, FailoverAsync),
\* attempts the providers the call of the synchronous method made from the
\* same index, whose failures the catch block handles (SyncRun, Failover),
\* attempts, in the same order, leaves the index where that call leaves it,
\* and ends with the same value or the same error.
C26_SyncAndAsyncAgree ==
  [][\A c \in CallIds :
       ( /\ Completes(c) /\ calls'[c].p = "speak"
         /\ calls'[c].alone /\ calls'[c].fixed
         /\ \A i \in 0..(Len(_providers) - 1) : SameOutcome(i) )
       => LET first == calls'[c].tried[1]
              o == SyncRun(c, first.on, first.ep)
          IN  /\ TriedIdx(c)' = [i \in DOMAIN o.tried |-> o.tried[i].idx]
              /\ \A i \in DOMAIN o.tried :
                   calls'[c].tried[i].what = o.tried[i].what
              /\ _activeProvider' = o.act
              /\ advances' = o.adv
              /\ calls'[c].res = (IF o.kind = "value" THEN "value" ELSE "error")
              /\ calls'[c].val = o.val
              /\ calls'[c].err = o.err]_vars

\* An asynchronous call has been rejected by two providers and resolved by
\* the third, as the synchronous call does on the same providers.
C26_Witness ==
  \E c \in CallIds :
    /\ calls[c].pc = "done" /\ calls[c].p = "speak" /\ calls[c].aw
    /\ calls[c].alone /\ calls[c].fixed
    /\ \A i \in 0..(Len(_providers) - 1) : SameOutcome(i)
    /\ TriedIdx(c) = <<0, 1, 2>>
    /\ calls[c].res = "value"
    /\ SyncRun(c, 0, 0).kind = "value"
    /\ SyncRun(c, 0, 0).val = calls[c].val

\* The failed attempts call c has behind it: all its attempts, but the one a
\* pending call waits for.
FailedSoFar(c) ==
  IF calls[c].pc = "pending" THEN Len(calls[c].tried) - 1
  ELSE Len(calls[c].tried)

\* C27: the retry budget belongs to one logical call. The budget of a call
\* in flight is the configured retries less its own failed attempts, whatever
\* other calls, earlier or concurrent, have failed and retried; a new access
\* starts from the configured retries; a step of one call changes nothing of
\* another call's position, attempts, budget or outcome, and the
\* configuration stays as it is: what a call leaves to the others is the
\* active index.
C27_BudgetPerCall ==
  /\ [](\A c \in CallIds :
          InFlight(c) => calls[c].retries + FailedSoFar(c) = _retries)
  /\ [][/\ \A c \in CallIds :
             (Begins(c) /\ calls'[c].pc = "held" /\ calls'[c].tried = <<>>)
             => calls'[c].retries = _retries
        /\ \A c, d \in CallIds :
             (c # d /\ Progress(c)' # Progress(c))
             => Progress(d)' = Progress(d)
        /\ _retries' = _retries /\ _shouldRetryOn' = _shouldRetryOn]_vars

\* After another call has used up its whole budget of two retries, a call
\* that began meanwhile waits for its first attempt with its two retries
\* left.
C27_Witness ==
  \E c, d \in CallIds :
    /\ c # d /\ _retries = 2
    /\ calls[d].pc = "done" /\ calls[d].res = "error"
    /\ Len(calls[d].tried) = 3
    /\ calls[c].pc = "pending" /\ ~calls[c].alone
    /\ Len(calls[c].tried) = 1 /\ calls[c].retries = 2
    /\ advances >= 2

\* The last attempt of call c.
LastOf(c) == calls[c].tried[Len(calls[c].tried)]

\* Call c has succeeded after a failover, with no other call in flight, and
\* the index has not advanced since its last attempt.
SucceededAfterFailover(c) ==
  /\ calls[c].pc = "done" /\ calls[c].res = "value" /\ calls[c].alone
  /\ Len(calls[c].tried) >= 2
  /\ LastOf(c).ep = advances

\* C28: the active index changes only by advancements, each of one position
\* modulo the number of providers, which only failures trigger; no success
\* resets it. After a call has succeeded on provider k following a failover,
\* with no other call in flight, the index is k and the next call makes its
\* first attempt against provider k.
C28_FailoverIsSticky ==
  /\ [](\A c \in CallIds :
          SucceededAfterFailover(c) => _activeProvider = LastOf(c).idx)
  /\ [][/\ advances' >= advances
        /\ _activeProvider' # _activeProvider
           => _activeProvider' =
                (_activeProvider + (advances' - advances)) % Len(_providers)
        /\ advances' = advances => _activeProvider' = _activeProvider
        /\ \A c, d \in CallIds :
             ( /\ c # d /\ SucceededAfterFailover(c) /\ Begins(d)
               /\ \A e \in CallIds : ~InFlight(e) )
             => /\ calls'[d].pc = "held"
                   => calls'[d].target = LastOf(c).idx
                /\ calls'[d].tried # <<>>
                   => calls'[d].tried[1].idx = LastOf(c).idx]_vars

\* A call has succeeded on the third provider after two failovers, and the
\* next call has made its first attempt on the third provider.
C28_Witness ==
  \E c, d \in CallIds :
    /\ c # d /\ calls[c].pc = "done" /\ calls[c].res = "value"
    /\ calls[c].alone /\ TriedIdx(c) = <<0, 1, 2>>
    /\ calls[d].pc = "done" /\ calls[d].alone
    /\ calls[d].tried[1].idx = 2 /\ calls[d].tried[1].on = 2
    /\ calls[d].tried[1].ep = 2

\* C29: the provider list only grows. A step either leaves the list as it
\* is, or appends one entry with latency 0 after the entries already there,
\* which keep their order, providers, ids and latencies, the active index and
\* the calls' progress staying as they were; a step of the dispatch (one that
\* moves a call or the index) leaves the list as it is.
C29_ListOnlyGrows ==
  [][/\ \/ _providers' = _providers
        \/ /\ Len(_providers') = Len(_providers) + 1
           /\ SubSeq(_providers', 1, Len(_providers)) = _providers
           /\ _providers'[Len(_providers')].ms = 0
           /\ IndexKept
           /\ \A c \in CallIds : Progress(c)' = Progress(c)
     /\ ( \/ \E c \in CallIds : Progress(c)' # Progress(c)
          \/ ~IndexKept )
        => _providers' = _providers]_vars

\* A third provider has been appended while a call was in flight, after the
\* index had advanced; the entries are in registration order.
C29_Witness ==
  /\ composite /\ Len(_providers) = 3
  /\ \A i \in 1..3 : _providers[i].id = i /\ _providers[i].ms = 0
  /\ advances >= 1 /\ _activeProvider = 1
  /\ \E c \in CallIds : ~calls[c].fixed /\ Len(calls[c].tried) >= 2

\* Call c has used its whole budget and ended with an error, with no other
\* call in flight, and the index has not advanced since its last attempt.
Exhausted(c) ==
  /\ calls[c].pc = "done" /\ calls[c].res = "error" /\ calls[c].alone
  /\ Len(calls[c].tried) = _retries + 1
  /\ LastOf(c).ep = advances

\* C30: a terminal failure does not rotate. When a call ends with an error
\* on the attempt that uses up its budget, the index and the number of its
\* advancements are after the step what they were when that attempt failed;
\* with no other call in flight the index is then the entry that attempt was
\* made on, and the next call makes its first attempt on that entry. With
\* retries = 0 the index never leaves 0.
C30_TerminalFailureDoesNotRotate ==
  /\ [](_retries = 0 => (_activeProvider = 0 /\ advances = 0))
  /\ [](\A c \in CallIds : Exhausted(c) => _activeProvider = LastOf(c).idx)
  /\ [][\A c \in CallIds :
          /\ ( /\ Completes(c) /\ calls'[c].res = "error"
               /\ Len(calls'[c].tried) = _retries + 1 )
             => /\ _activeProvider'
                     = IndexAtFailure(c, Len(calls'[c].tried))
                /\ advances' = AdvancesAtFailure(c, Len(calls'[c].tried))
                /\ calls'[c].alone
                     => _activeProvider' = LastOf(c)'.idx
          /\ \A d \in CallIds :
               ( /\ c # d /\ Exhausted(c) /\ Begins(d)
                 /\ \A e \in CallIds : ~InFlight(e) )
               => /\ calls'[d].pc = "held"
                     => calls'[d].target = LastOf(c).idx
                  /\ calls'[d].tried # <<>>
                     => calls'[d].tried[1].idx = LastOf(c).idx]_vars

\* With retries = 2 and four providers a call has failed on providers 0, 1
\* and 2 and ended with the third error, the index resting on provider 2,
\* and the next call has made its first attempt on provider 2.
C30_Witness ==
  \E c, d \in CallIds :
    /\ c # d /\ calls[c].pc = "done" /\ calls[c].res = "error"
    /\ calls[c].alone /\ _retries = 2 /\ Len(_providers) = 4
    /\ TriedIdx(c) = <<0, 1, 2>>
    /\ calls[c].p \in {"syncSpeak", "speak"}
    /\ calls[d].pc = "done" /\ calls[d].alone
    /\ calls[d].tried[1].idx = 2 /\ calls[d].tried[1].on = 2
    /\ calls[d].tried[1].ep = 2

\* C31: with at least two providers of distinct identifiers, the attempt a
\* call makes after a failed one is made on another entry than the failed one,
\* whatever the other calls have done to the index in between.
C31_RetryTargetsAnotherEntry ==
  [][\A c \in CallIds : \A i \in DOMAIN calls'[c].tried :
       (Len(_providers) >= 2 /\ DistinctIds /\ i >= 2 /\ MakesAttempt(c, i))
       => calls'[c].tried[i].idx # calls'[c].tried[i - 1].idx]_vars

\* A call that failed on provider 0 has made its next attempt on provider 2,
\* another call having advanced the index twice in the meantime.
C31_Witness ==
  \E c \in CallIds :
    /\ ~calls[c].alone /\ Len(_providers) >= 3 /\ DistinctIds
    /\ Len(calls[c].tried) >= 2
    /\ calls[c].tried[1].idx = 0 /\ calls[c].tried[2].idx = 2
    /\ calls[c].tried[2].ep >= 2

\* C32: with exactly one provider the index is 0, and a call whose operation
\* fails on that provider with an error the policy accepts makes 1 + retries
\* attempts, all on provider 0, and ends with the error of the last one.
C32_SingleProviderRetriesItself ==
  /\ [](Len(_providers) = 1 => _activeProvider = 0)
  /\ [][\A c \in CallIds :
          ( /\ Completes(c) /\ Len(_providers) = 1
            /\ FailsRetryably(0, calls[c].p) )
          => /\ calls'[c].res = "error"
             /\ Len(calls'[c].tried) = _retries + 1
             /\ \A i \in DOMAIN calls'[c].tried : calls'[c].tried[i].idx = 0
             /\ calls'[c].err =
                  Raised(FailureClass(0, calls[c].p), c, _retries + 1, 0)
             /\ _activeProvider' = 0]_vars

\* On a composite of one provider a call of an asynchronous method has
\* ended with an error after three attempts on that provider.
C32_Witness ==
  \E c \in CallIds :
    /\ Len(_providers) = 1 /\ _retries = 2 /\ _activeProvider = 0
    /\ calls[c].pc = "done" /\ calls[c].res = "error" /\ calls[c].aw
    /\ calls[c].p = "speak"
    /\ TriedIdx(c) = <<0, 0, 0>>

\* C33: also when calls interleave, a call with retries <= N - 1 over N
\* providers of distinct identifiers (the list being the same throughout the
\* call) attempts no provider twice.
C33_NoProviderTwice ==
  [][\A c \in CallIds : \A i \in DOMAIN calls'[c].tried :
       ( /\ MakesAttempt(c, i) /\ calls'[c].fixed /\ DistinctIds
         /\ _retries + 1 <= Len(_providers) )
       => \A j \in 1..(i - 1) :
            calls'[c].tried[j].idx # calls'[c].tried[i].idx]_vars

\* This step runs, or handles the outcome of, the first invocation of the
\* closure call c obtained from the get trap.
HandlesFirst(c) ==
  /\ calls'[c] # calls[c]
  /\ \/ calls[c].pc = "held"
     \/ /\ calls[c].pc = "pending"
        /\ \A j \in 1..(Len(calls[c].tried) - 1) :
             calls[c].tried[j].what # "invoke"

\* The position of that first invocation among the attempts of call c.
FirstInvoke(c) ==
  IF calls[c].pc = "held" THEN Len(calls[c].tried) + 1
                          ELSE Len(calls[c].tried)

\* The closure the get trap returns is bound to the entry active when the
\* trap returns it, and its first invocation is made on that entry, whatever
\* the index is by then.
BoundAtRead ==
  \A c \in CallIds :
    /\ (calls[c].pc # "held" /\ calls'[c].pc = "held")
       => /\ calls'[c].target = _activeProvider'
          /\ calls'[c].seen = advances'
    /\ (calls[c].pc = "held" /\ calls'[c].pc # "held")
       => calls'[c].tried[FirstInvoke(c)] =
            Invocation(c, calls[c].target, advances, _activeProvider,
                       calls[c].target, ArgsOf(c))

\* The failure of the first invocation of call c, when it uses up the budget
\* or is refused by the policy, leaves the index as it is.
FirstFailureEnds(c) ==
  ( /\ HandlesFirst(c) /\ Completes(c) /\ calls'[c].res = "error"
    /\ Len(calls'[c].tried) = FirstInvoke(c) )
  => IndexKept

\* C34: the first invocation is made on the entry active when the member was
\* read, and if the index has advanced between the read and the invocation,
\* the failure of that invocation does not advance the index. The last part
\* is taken on the lists of at least two entries of distinct identifiers that
\* stay the same throughout the call, where it already fails.
C34_Original ==
  [][/\ BoundAtRead
     /\ \A c \in CallIds :
          /\ FirstFailureEnds(c)
          /\ ( /\ HandlesFirst(c) /\ FirstInvoke(c) \in Switched(c)
               /\ calls'[c].fixed /\ Len(_providers) >= 2 /\ DistinctIds
               /\ calls'[c].tried[FirstInvoke(c)].ep > calls[c].seen )
             => ~AdvancedBy(c, FirstInvoke(c))]_vars

\* C35: uid(len) returns, for every len from 1 to 256 and whatever the random
\* draws, a string of decimal digits of length exactly len; for len < 1 or
\* len > 256 it throws and returns no id.
C35_UidLength ==
  /\ uid.pc = "returned"
     => /\ 1 <= uid.len /\ uid.len <= MaxUidLength
        /\ Len(uid.id) = uid.len
        /\ \A i \in DOMAIN uid.id :
             \E d \in DOMAIN DecimalDigits : uid.id[i] = DecimalDigits[d]
  /\ (uid.len < 1 \/ uid.len > MaxUidLength)
     => /\ uid.pc \in {"called", "threw"}
        /\ uid.id = <<>>

=============================================================================
